---- MODULE Spec2Model ----
(***************************************************************************)
(* Model of wamr-rust-sdk's src/module.rs: the Module type (compiled       *)
(* handle + retained byte buffer + attached WasiCtx), its constructors     *)
(* from_file / from_buf, set_wasi_context, get_inner_module and Drop, and  *)
(* the engine boundary (wasm_runtime_load, unload, set_wasi_args ...) as   *)
(* the record of what the engine was handed.                               *)
(***************************************************************************)
EXTENDS Integers, Sequences, FiniteSets, TLC

\* ------------------------------------------------------------------ bounds

\* Number of set_wasi_context calls in a run, over all modules.
MaxAttach == 2

\* Calls made on one WasiCtxBuilder before build().
MaxBuilderCalls == 3

\* The Module values of a run (each is the result of one from_buf/from_file).
Modules == {1, 2}

\* ------------------------------------------------------------- primitives

\* The null wasm_module_t (module.is_null()).
NULL == 0

\* Handles the engine may hand out; never reused within a run.
Handles == 1..Cardinality(Modules)

\* `x as u32` on a non-negative usize: the low 32 bits, by 16-bit limbs.
as_u32(n) == ((n \div 65536) % 65536) * 65536 + (n % 65536)

\* `x as i32` on a non-negative usize: the low 32 bits, two's complement.
as_i32(n) ==
    LET hi == (n \div 65536) % 65536
        lo == n % 65536
    IN  IF hi >= 32768 THEN (hi - 65536) * 65536 + lo ELSE hi * 65536 + lo

\* A pointer into storage owned by a Rust value: owner Module m, the n-th
\* WasiCtx stored in it (n = 0 for its content buffer or default WasiCtx),
\* and which Vec of that value.
Ptr(m, n, field) == [m |-> m, n |-> n, field |-> field]

\* ptr::null_mut()
NullPtr == Ptr(0, 0, "null")

\* The heap block of Module m's `content: Vec<u8>`.
ContentStore(m) == Ptr(m, 0, "content")

\* The caller's slice `buf: &[u8]` given to from_buf for Module m.
CallerBuf(m) == Ptr(m, 0, "caller_buf")

\* The heap storage of the n-th WasiCtx value stored in Module m.
WasiStore(m, n) == Ptr(m, n, "wasi_ctx")

\* ---------------------------------------------------------------- strings

\* "load module failed" as bytes.
LoadModuleFailed ==
    <<108, 111, 97, 100, 32, 109, 111, 100, 117, 108, 101, 32,
      102, 97, 105, 108, 101, 100>>

\* helper::DEFAULT_ERROR_BUF_SIZE: capacity of the error buffer.
DEFAULT_ERROR_BUF_SIZE == 128

\* [0i8; DEFAULT_ERROR_BUF_SIZE]
ZeroErrorBuf == [i \in 1..DEFAULT_ERROR_BUF_SIZE |-> 0]

\* helper::error_buf_to_string: the text the buffer holds (its non-NUL bytes).
NonZero(b) == b # 0

error_buf_to_string(error_buf) == SelectSeq(error_buf, NonZero)

\* -------------------------------------------------------- inputs: buffers

\* The 41-byte module of tests::test_module_from_buf.
MinimalModule ==
    <<0, 97, 115, 109, 1, 0, 0, 0, 1, 7, 1, 96, 2, 127,
      127, 1, 127, 3, 2, 1, 0, 7, 7, 1, 3, 97, 100, 100,
      0, 0, 10, 9, 1, 7, 0, 32, 0, 32, 1, 106, 11>>

\* The same bytes with a corrupted magic number.
CorruptedMagic == <<1>> \o Tail(MinimalModule)

Buffers == {MinimalModule, CorruptedMagic, <<>>}

\* Diagnostics the engine may write: "bad" or nothing at all.
DiagBad == <<98, 97, 100>>
Diagnostics == {<<>>, DiagBad}

\* The engine's magic/version check on the first eight bytes.
HasWasmHeader(bytes) ==
    /\ Len(bytes) >= 8
    /\ SubSeq(bytes, 1, 8) = <<0, 97, 115, 109, 1, 0, 0, 0>>

\* What the engine leaves in the caller's error buffer after a failed load:
\* the diagnostic, NUL-terminated, cut to the capacity.
WriteDiag(error_buf, diag) ==
    [i \in 1..Len(error_buf) |->
        IF i <= Len(diag) /\ i < Len(error_buf) THEN diag[i] ELSE 0]

\* ---------------------------------------------------------- inputs: files

Paths == {"not_exist", "add.wasm", "bad.wasm", "a_directory"}

\* File::open(path): fails for a missing file.
FileOpens(path) == path # "not_exist"

\* read_to_end: fails on what is not a regular readable file.
FileReads(path) == path \notin {"not_exist", "a_directory"}

FileBytes(path) ==
    IF path = "add.wasm" THEN MinimalModule
    ELSE IF path = "bad.wasm" THEN CorruptedMagic
    ELSE <<>>

\* ------------------------------------------- WasiCtx and WasiCtxBuilder

\* WasiCtx::default() / WasiCtxBuilder::new(): every list empty.
WasiCtx_default ==
    [real_paths |-> <<>>, mapped_paths |-> <<>>, env_vars |-> <<>>,
     arguments |-> <<>>, allowed_dns |-> <<>>, allowed_address |-> <<>>]

WasiCtxBuilder_new == WasiCtx_default

\* Append one preopen pair; an omitted alias ("") defaults to the real path.
add_preopen(b, real, alias) ==
    [b EXCEPT !.real_paths = Append(@, real),
              !.mapped_paths = Append(@, IF alias = "" THEN real ELSE alias)]

\* set_pre_open_path(real_paths, mapped_paths): one pair per real path, in
\* order; a position with no mapped path given has its alias omitted.
RECURSIVE add_preopens(_, _, _)
add_preopens(b, reals, mapped) ==
    IF reals = <<>> THEN b
    ELSE add_preopens(
            add_preopen(b, Head(reals), IF mapped = <<>> THEN "" ELSE Head(mapped)),
            Tail(reals),
            IF mapped = <<>> THEN <<>> ELSE Tail(mapped))

set_pre_open_path(b, reals, mapped) == add_preopens(b, reals, mapped)

\* A setter that adds to the list it should replace.
set_env_vars_append(b, list) == [b EXCEPT !.env_vars = @ \o list]

\* The four wholesale setters: each replaces its list.
set_env_vars(b, list) == [b EXCEPT !.env_vars = list]
set_arguments(b, list) == [b EXCEPT !.arguments = list]
set_allowed_dns(b, list) == [b EXCEPT !.allowed_dns = list]
set_allowed_address(b, list) == [b EXCEPT !.allowed_address = list]

\* build(): the finished, immutable WasiCtx.
build(b) == b

\* The getters of WasiCtx.
get_preopen_real_paths(ctx) == ctx.real_paths
get_preopen_mapped_paths(ctx) == ctx.mapped_paths
get_env_vars(ctx) == ctx.env_vars
get_arguments(ctx) == ctx.arguments
get_allowed_dns(ctx) == ctx.allowed_dns
get_allowed_address(ctx) == ctx.allowed_address

\* The WasiCtx of tests::test_module_with_wasi_args.
TestWasiCtx ==
    build(set_allowed_dns(set_allowed_address(set_env_vars(
        set_pre_open_path(WasiCtxBuilder_new, <<".">>, <<>>),
        <<>>), <<>>), <<>>))

\* A WasiCtx with every list non-empty, two preopens (one alias given).
FullWasiCtx ==
    build(set_allowed_address(set_allowed_dns(set_arguments(set_env_vars(
        set_pre_open_path(WasiCtxBuilder_new, <<"/data", ".">>, <<"/sandbox">>),
        <<"K=V">>), <<"prog", "-v">>), <<"example.com">>), <<"127.0.0.1">>))

\* The WasiCtx values handed to set_wasi_context: built ones, among them a
\* value with exactly one of the lists non-empty, for each list.
WasiCtxs ==
    { build(WasiCtxBuilder_new),
      TestWasiCtx,
      FullWasiCtx,
      build(set_env_vars(WasiCtxBuilder_new, <<"K=V">>)),
      build(set_arguments(WasiCtxBuilder_new, <<"prog", "-v">>)),
      build(set_allowed_dns(WasiCtxBuilder_new, <<"example.com">>)),
      build(set_allowed_address(WasiCtxBuilder_new, <<"127.0.0.1">>)) }

\* ------------------------------------------------------------------ state

VARIABLES
    pc,            \* per Module: where its value is in its life
    call,          \* per Module: the constructor call that made it
    result,        \* per Module: what the constructor returned
    module,        \* Module.module: the wasm_module_t
    content,       \* Module.content: the retained bytes
    wasi_ctx,      \* Module.wasi_ctx: the stored WasiCtx and which value it is
    arg,           \* per Module: the WasiCtx last given to set_wasi_context
    prev,          \* per Module: the WasiCtx that call replaced
    heap,          \* storage owned by the Modules that is allocated
    ret,           \* what get_inner_module last returned
    next_handle,   \* engine: the handle the next successful load returns
    loaded,        \* engine: per handle, the buffer it was loaded from
    load_ret,      \* engine: per Module, what wasm_runtime_load returned
    diag,          \* engine: per Module, the diagnostic load wrote
    unloads,       \* engine: per handle, the wasm_runtime_unload calls
    wasi_args,     \* engine: per handle, last wasm_runtime_set_wasi_args
    ns_lookup_pool,\* engine: per handle, last ..._set_wasi_ns_lookup_pool
    addr_pool,     \* engine: per handle, last ..._set_wasi_addr_pool
    calls,         \* engine: per handle, the calls received, in order
    builder,       \* the WasiCtxBuilder being filled
    bpc,           \* the builder: "building", "built" or "attached"
    bcalls,        \* the calls made on the builder, in order
    conv_len,      \* a len() whose conversion is looked at, as a usize
    conv_out       \* what the engine is passed for it

module_vars ==
    <<pc, call, result, module, content, wasi_ctx, arg, prev, heap, ret>>
engine_load_vars == <<next_handle, loaded, load_ret, diag, unloads>>
engine_wasi_vars == <<wasi_args, ns_lookup_pool, addr_pool>>
builder_vars == <<builder, bpc, bcalls>>
conv_vars == <<conv_len, conv_out>>
aux_vars == <<builder_vars, conv_vars>>
vars == <<module_vars, engine_load_vars, engine_wasi_vars, calls, aux_vars>>

\* Values wasm_module_t can take, the null one included.
ModuleT == {NULL} \cup Handles

\* load_ret before wasm_runtime_load was called.
NotCalled == -1

NoCall == [via |-> "none", path |-> "", buf |-> <<>>]
NoResult == [kind |-> "none", msg |-> <<>>, os |-> ""]
Ok == [kind |-> "Ok", msg |-> <<>>, os |-> ""]
CompilationError(msg) == [kind |-> "CompilationError", msg |-> msg, os |-> ""]
WasmFileFSError(os) == [kind |-> "WasmFileFSError", msg |-> <<>>, os |-> os]

\* impl From<io::Error> for RuntimeError, used by `?` in from_file.
FromIoError(os) == WasmFileFSError(os)

\* What the engine holds for a handle it never returned.
NotLoaded == [state |-> "free", buf |-> NullPtr, len |-> 0]

\* No call received yet.
NoWasiArgs ==
    [set |-> FALSE,
     dir_list |-> NullPtr, dir_count |-> 0,
     map_dir_list |-> NullPtr, map_dir_count |-> 0,
     env |-> NullPtr, env_count |-> 0,
     argv |-> NullPtr, argc |-> 0]

NoPool == [set |-> FALSE, list |-> NullPtr, count |-> 0]

\* A usize too wide for one model integer: three 16-bit limbs, high first.
ZeroLen == <<0, 0, 0>>

\* An integer the engine is passed: its sign and its magnitude in limbs.
Exact(limbs) == [neg |-> FALSE, mag |-> limbs]

NoConversion == [site |-> "none", len |-> ZeroLen]

Init ==
    /\ pc = [m \in Modules |-> "init"]
    /\ call = [m \in Modules |-> NoCall]
    /\ result = [m \in Modules |-> NoResult]
    /\ module = [m \in Modules |-> NULL]
    /\ content = [m \in Modules |-> <<>>]
    /\ wasi_ctx = [m \in Modules |-> [id |-> 0, ctx |-> WasiCtx_default]]
    /\ arg = [m \in Modules |-> WasiCtx_default]
    /\ prev = [m \in Modules |-> WasiCtx_default]
    /\ heap = {}
    /\ ret = NULL
    /\ next_handle = 1
    /\ loaded = [h \in ModuleT |-> NotLoaded]
    /\ load_ret = [m \in Modules |-> NotCalled]
    /\ diag = [m \in Modules |-> <<>>]
    /\ unloads = [h \in ModuleT |-> 0]
    /\ wasi_args = [h \in ModuleT |-> NoWasiArgs]
    /\ ns_lookup_pool = [h \in ModuleT |-> NoPool]
    /\ addr_pool = [h \in ModuleT |-> NoPool]
    /\ calls = [h \in ModuleT |-> <<>>]
    /\ builder = WasiCtxBuilder_new
    /\ bpc = "building"
    /\ bcalls = <<>>
    /\ conv_len = NoConversion
    /\ conv_out = Exact(ZeroLen)

\* --------------------------------------------------------------- from_buf

\* A from_buf that never takes the null branch.
is_null_never(h) == FALSE

\* module.is_null()
is_null(h) == h = NULL

\* A from_buf that loads from the caller's slice and not from its copy.
load_buf_ptr_caller(m) == CallerBuf(m)

\* content.as_mut_ptr(): the buffer wasm_runtime_load is given.
load_buf_ptr(m) == ContentStore(m)

\* The Err of a null load: `match error_buf.len()`.
load_error(error_buf) ==
    IF Len(error_buf) = 0
    THEN CompilationError(LoadModuleFailed)
    ELSE CompilationError(error_buf_to_string(error_buf))

\* wasm_runtime_load on `bytes`: a fresh handle and an untouched error
\* buffer, or null and a diagnostic (possibly none; never none for bytes
\* without the wasm header).
wasm_runtime_load(bytes, h, d) ==
    /\ h \in {NULL, next_handle}
    /\ d \in Diagnostics
    /\ h # NULL => HasWasmHeader(bytes) /\ d = <<>>
    /\ (h = NULL /\ ~HasWasmHeader(bytes)) => d # <<>>

\* Module::from_buf(_runtime, buf) making Module m.
from_buf(m, buf) ==
    \E h \in ModuleT, d \in Diagnostics :
        LET content_ == buf
            error_buf == IF h = NULL THEN WriteDiag(ZeroErrorBuf, d)
                                     ELSE ZeroErrorBuf
        IN  /\ wasm_runtime_load(content_, h, d)
            /\ load_ret' = [load_ret EXCEPT ![m] = h]
            /\ diag' = [diag EXCEPT ![m] = d]
            /\ IF h # NULL
               THEN /\ loaded' = [loaded EXCEPT ![h] =
                            [state |-> "loaded", buf |-> load_buf_ptr(m),
                             len |-> as_u32(Len(content_))]]
                    /\ next_handle' = next_handle + 1
               ELSE UNCHANGED <<loaded, next_handle>>
            /\ IF is_null(h)
               THEN /\ result' = [result EXCEPT ![m] = load_error(error_buf)]
                    /\ pc' = [pc EXCEPT ![m] = "failed"]
                    /\ UNCHANGED <<module, content, heap>>
               ELSE /\ result' = [result EXCEPT ![m] = Ok]
                    /\ pc' = [pc EXCEPT ![m] = "live"]
                    /\ module' = [module EXCEPT ![m] = h]
                    /\ content' = [content EXCEPT ![m] = content_]
                    /\ heap' = heap \cup {ContentStore(m), WasiStore(m, 0)}
            /\ UNCHANGED <<wasi_ctx, arg, prev, ret, unloads, engine_wasi_vars, calls>>

\* Module values are numbered in the order they are made.
IsNext(m) == pc[m] = "init" /\ \A k \in Modules : k < m => pc[k] # "init"

FromBuf(m) ==
    /\ IsNext(m)
    /\ \E buf \in Buffers :
        /\ call' = [call EXCEPT ![m] = [via |-> "buf", path |-> "", buf |-> buf]]
        /\ from_buf(m, buf)
    /\ UNCHANGED aux_vars

\* -------------------------------------------------------------- from_file

\* A from_file that ignores the result of read_to_end.
from_file_read_unchecked(m, path) ==
    IF ~FileOpens(path)
    THEN /\ result' = [result EXCEPT ![m] = FromIoError("open")]
         /\ pc' = [pc EXCEPT ![m] = "failed"]
         /\ UNCHANGED <<module, content, wasi_ctx, arg, prev, heap, ret,
                        engine_load_vars, engine_wasi_vars, calls>>
    ELSE from_buf(m, FileBytes(path))

\* Module::from_file(runtime, wasm_file) making Module m.
from_file(m, path) ==
    IF ~FileOpens(path)
    THEN /\ result' = [result EXCEPT ![m] = FromIoError("open")]
         /\ pc' = [pc EXCEPT ![m] = "failed"]
         /\ UNCHANGED <<module, content, wasi_ctx, arg, prev, heap, ret,
                        engine_load_vars, engine_wasi_vars, calls>>
    ELSE IF ~FileReads(path)
    THEN /\ result' = [result EXCEPT ![m] = FromIoError("read")]
         /\ pc' = [pc EXCEPT ![m] = "failed"]
         /\ UNCHANGED <<module, content, wasi_ctx, arg, prev, heap, ret,
                        engine_load_vars, engine_wasi_vars, calls>>
    ELSE from_buf(m, FileBytes(path))

FromFile(m) ==
    /\ IsNext(m)
    /\ \E path \in Paths :
        /\ call' = [call EXCEPT ![m] =
                [via |-> "file", path |-> path, buf |-> <<>>]]
        /\ from_file(m, path)
    /\ UNCHANGED aux_vars

\* ------------------------------------------------------- get_inner_module

\* An accessor that does not return the module's handle.
get_inner_module_null(m) == NULL

\* Module::get_inner_module
get_inner_module(m) == module[m]

GetInnerModule(m) ==
    /\ pc[m] = "live"
    /\ ret' = get_inner_module(m)
    /\ UNCHANGED <<pc, call, result, module, content, wasi_ctx, arg, prev, heap,
                   engine_load_vars, engine_wasi_vars, calls>>
    /\ UNCHANGED aux_vars

\* ------------------------------------------------------- set_wasi_context

\* A table made at the first call and handed out again at every later one.
as_ptr_cached(m, field) == Ptr(m, 1, field)

\* vec.as_ptr() of a Vec of the WasiCtx now stored in Module m.
as_ptr(m, field) == Ptr(m, wasi_ctx[m].id, field)

\* A projection without the is_empty() case: as_ptr() of every list.
ptr_never_null(m, field, list) == as_ptr(m, field)

\* `if list.is_empty() { ptr::null_mut() } else { list.as_ptr() }`
ptr_or_null(m, field, list) ==
    IF list = <<>> THEN NullPtr ELSE as_ptr(m, field)

\* A call that takes the mapped-path count from the wrong list.
wasi_args_call_wrong_count(m) ==
    LET ctx == wasi_ctx[m].ctx
    IN  [set |-> TRUE,
         dir_list |-> ptr_or_null(m, "real_paths", get_preopen_real_paths(ctx)),
         dir_count |-> as_u32(Len(get_preopen_real_paths(ctx))),
         map_dir_list |->
            ptr_or_null(m, "mapped_paths", get_preopen_mapped_paths(ctx)),
         map_dir_count |-> as_u32(Len(get_env_vars(ctx))),
         env |-> ptr_or_null(m, "env_vars", get_env_vars(ctx)),
         env_count |-> as_u32(Len(get_env_vars(ctx))),
         argv |-> ptr_or_null(m, "arguments", get_arguments(ctx)),
         argc |-> as_i32(Len(get_arguments(ctx)))]

\* The arguments of the wasm_runtime_set_wasi_args call.
wasi_args_call(m) ==
    LET ctx == wasi_ctx[m].ctx
    IN  [set |-> TRUE,
         dir_list |-> ptr_or_null(m, "real_paths", get_preopen_real_paths(ctx)),
         dir_count |-> as_u32(Len(get_preopen_real_paths(ctx))),
         map_dir_list |->
            ptr_or_null(m, "mapped_paths", get_preopen_mapped_paths(ctx)),
         map_dir_count |-> as_u32(Len(get_preopen_mapped_paths(ctx))),
         env |-> ptr_or_null(m, "env_vars", get_env_vars(ctx)),
         env_count |-> as_u32(Len(get_env_vars(ctx))),
         argv |-> ptr_or_null(m, "arguments", get_arguments(ctx)),
         argc |-> as_i32(Len(get_arguments(ctx)))]

\* The arguments of the wasm_runtime_set_wasi_ns_lookup_pool call.
ns_lookup_pool_call(m) ==
    LET ctx == wasi_ctx[m].ctx
    IN  [set |-> TRUE,
         list |-> ptr_or_null(m, "allowed_dns", get_allowed_dns(ctx)),
         count |-> as_u32(Len(get_allowed_dns(ctx)))]

\* The arguments of the wasm_runtime_set_wasi_addr_pool call.
addr_pool_call(m) ==
    LET ctx == wasi_ctx[m].ctx
    IN  [set |-> TRUE,
         list |-> ptr_or_null(m, "allowed_address", get_allowed_address(ctx)),
         count |-> as_u32(Len(get_allowed_address(ctx)))]

\* An assignment that also gives up the content buffer.
store_wasi_ctx_frees_content(m, ctx) ==
    /\ wasi_ctx' = [wasi_ctx EXCEPT ![m] = [id |-> @.id + 1, ctx |-> ctx]]
    /\ heap' = (heap \ {WasiStore(m, wasi_ctx[m].id), ContentStore(m)})
                    \cup {WasiStore(m, wasi_ctx[m].id + 1)}

\* `self.wasi_ctx = wasi_ctx;`: the old value is dropped, the new moved in.
store_wasi_ctx(m, ctx) ==
    /\ wasi_ctx' = [wasi_ctx EXCEPT ![m] = [id |-> @.id + 1, ctx |-> ctx]]
    /\ heap' = (heap \ {WasiStore(m, wasi_ctx[m].id)})
                    \cup {WasiStore(m, wasi_ctx[m].id + 1)}

\* A method on `&self` where the code has `&mut self`: callable on a Module
\* while a set_wasi_context on it is running.
shared(m) ==
    pc[m] \in {"live", "set_wasi_args", "set_wasi_ns_lookup_pool",
               "set_wasi_addr_pool"}

\* `&mut self` (and the ownership Drop needs): the call can begin only when
\* no other call on Module m is running.
exclusive(m) == pc[m] = "live"

\* The set_wasi_context calls made so far.
RECURSIVE SumIds(_)
SumIds(ms) ==
    IF ms = {} THEN 0
    ELSE LET m == CHOOSE x \in ms : TRUE
         IN  wasi_ctx[m].id + SumIds(ms \ {m})

Attaches == SumIds(Modules)

\* set_wasi_context, up to its first engine call, given one of `ctxs`.
SetWasiContextFrom(m, ctxs) ==
    /\ exclusive(m)
    /\ Attaches < MaxAttach
    /\ \E ctx \in ctxs :
        /\ arg' = [arg EXCEPT ![m] = ctx]
        /\ prev' = [prev EXCEPT ![m] = wasi_ctx[m].ctx]
        /\ store_wasi_ctx(m, ctx)
    /\ pc' = [pc EXCEPT ![m] = "set_wasi_args"]
    /\ UNCHANGED <<call, result, module, content, ret,
                   engine_load_vars, engine_wasi_vars, calls>>

SetWasiContext(m) ==
    /\ SetWasiContextFrom(m, WasiCtxs)
    /\ UNCHANGED aux_vars

\* A set_wasi_context that goes from the first engine call to the third.
SetWasiArgs_then_addr_pool(m) ==
    /\ pc[m] = "set_wasi_args"
    /\ wasi_args' = [wasi_args EXCEPT ![get_inner_module(m)] = wasi_args_call(m)]
    /\ calls' = [calls EXCEPT ![get_inner_module(m)] = Append(@, "set_wasi_args")]
    /\ pc' = [pc EXCEPT ![m] = "set_wasi_addr_pool"]
    /\ UNCHANGED <<call, result, module, content, wasi_ctx, arg, prev, heap, ret,
                   engine_load_vars, ns_lookup_pool, addr_pool>>
    /\ UNCHANGED aux_vars

\* set_wasi_context: the wasm_runtime_set_wasi_args call.
SetWasiArgs(m) ==
    /\ pc[m] = "set_wasi_args"
    /\ wasi_args' = [wasi_args EXCEPT ![get_inner_module(m)] = wasi_args_call(m)]
    /\ calls' = [calls EXCEPT ![get_inner_module(m)] = Append(@, "set_wasi_args")]
    /\ pc' = [pc EXCEPT ![m] = "set_wasi_ns_lookup_pool"]
    /\ UNCHANGED <<call, result, module, content, wasi_ctx, arg, prev, heap, ret,
                   engine_load_vars, ns_lookup_pool, addr_pool>>
    /\ UNCHANGED aux_vars

\* A set_wasi_context that skips the DNS pool call for an empty list.
SetWasiNsLookupPool_skip_empty(m) ==
    /\ pc[m] = "set_wasi_ns_lookup_pool"
    /\ ns_lookup_pool' =
            IF get_allowed_dns(wasi_ctx[m].ctx) = <<>>
            THEN ns_lookup_pool
            ELSE [ns_lookup_pool EXCEPT
                    ![get_inner_module(m)] = ns_lookup_pool_call(m)]
    /\ calls' =
            IF get_allowed_dns(wasi_ctx[m].ctx) = <<>>
            THEN calls
            ELSE [calls EXCEPT
                    ![get_inner_module(m)] = Append(@, "set_wasi_ns_lookup_pool")]
    /\ pc' = [pc EXCEPT ![m] = "set_wasi_addr_pool"]
    /\ UNCHANGED <<call, result, module, content, wasi_ctx, arg, prev, heap, ret,
                   engine_load_vars, wasi_args, addr_pool>>
    /\ UNCHANGED aux_vars

\* set_wasi_context: the wasm_runtime_set_wasi_ns_lookup_pool call.
SetWasiNsLookupPool(m) ==
    /\ pc[m] = "set_wasi_ns_lookup_pool"
    /\ ns_lookup_pool' =
            [ns_lookup_pool EXCEPT ![get_inner_module(m)] = ns_lookup_pool_call(m)]
    /\ calls' = [calls EXCEPT
                    ![get_inner_module(m)] = Append(@, "set_wasi_ns_lookup_pool")]
    /\ pc' = [pc EXCEPT ![m] = "set_wasi_addr_pool"]
    /\ UNCHANGED <<call, result, module, content, wasi_ctx, arg, prev, heap, ret,
                   engine_load_vars, wasi_args, addr_pool>>
    /\ UNCHANGED aux_vars

\* set_wasi_context: the wasm_runtime_set_wasi_addr_pool call, and return.
SetWasiAddrPool(m) ==
    /\ pc[m] = "set_wasi_addr_pool"
    /\ addr_pool' = [addr_pool EXCEPT ![get_inner_module(m)] = addr_pool_call(m)]
    /\ calls' = [calls EXCEPT
                    ![get_inner_module(m)] = Append(@, "set_wasi_addr_pool")]
    /\ pc' = [pc EXCEPT ![m] = "live"]
    /\ UNCHANGED <<call, result, module, content, wasi_ctx, arg, prev, heap, ret,
                   engine_load_vars, wasi_args, ns_lookup_pool>>
    /\ UNCHANGED aux_vars

\* ------------------------------------------------------------------- Drop

\* wasm_runtime_unload(handle), as the engine sees it.
wasm_runtime_unload(h) ==
    /\ unloads' = [unloads EXCEPT ![h] = @ + 1]
    /\ loaded' = [loaded EXCEPT ![h].state = "unloaded"]
    /\ calls' = [calls EXCEPT ![h] = Append(@, "unload")]

\* A drop that unloads the handle the engine returned last.
Drop_drop_last_loaded(m) ==
    /\ pc[m] = "live"
    /\ wasm_runtime_unload(next_handle - 1)
    /\ pc' = [pc EXCEPT ![m] = "unloaded"]
    /\ UNCHANGED <<call, result, module, content, wasi_ctx, arg, prev, heap, ret,
                   next_handle, load_ret, diag, engine_wasi_vars>>
    /\ UNCHANGED aux_vars

\* A drop that releases nothing at the engine.
Drop_drop_no_unload(m) ==
    /\ pc[m] = "live"
    /\ pc' = [pc EXCEPT ![m] = "unloaded"]
    /\ UNCHANGED <<call, result, module, content, wasi_ctx, arg, prev, heap, ret,
                   engine_load_vars, engine_wasi_vars, calls>>
    /\ UNCHANGED aux_vars

\* <Module as Drop>::drop
Drop_drop(m) ==
    /\ exclusive(m)
    /\ wasm_runtime_unload(module[m])
    /\ pc' = [pc EXCEPT ![m] = "unloaded"]
    /\ UNCHANGED <<call, result, module, content, wasi_ctx, arg, prev, heap, ret,
                   next_handle, load_ret, diag, engine_wasi_vars>>
    /\ UNCHANGED aux_vars

\* After Drop::drop, the fields are dropped: content and wasi_ctx are freed.
DropFields(m) ==
    /\ pc[m] = "unloaded"
    /\ heap' = heap \ {ContentStore(m), WasiStore(m, wasi_ctx[m].id)}
    /\ pc' = [pc EXCEPT ![m] = "dropped"]
    /\ UNCHANGED <<call, result, module, content, wasi_ctx, arg, prev, ret,
                   engine_load_vars, engine_wasi_vars, calls>>
    /\ UNCHANGED aux_vars

\* ---------------------------------------------------------- specification

Next ==
    \E m \in Modules :
        \/ FromBuf(m)
        \/ FromFile(m)
        \/ GetInnerModule(m)
        \/ SetWasiContext(m)
        \/ SetWasiArgs(m)
        \/ SetWasiNsLookupPool(m)
        \/ SetWasiAddrPool(m)
        \/ Drop_drop(m)
        \/ DropFields(m)

Spec == Init /\ [][Next]_vars

\* ------------------------------------------------------- WasiCtxBuilder use

\* The lists given to the wholesale setters, and the preopen pairs given to
\* add_preopen ("" stands for an alias that is left out).
SetterLists == {<<>>, <<"a">>}
PreopenReals == {"."}
PreopenAliases == {"", "/sandbox"}

BuilderCall(op, list, real, alias) ==
    [op |-> op, list |-> list, real |-> real, alias |-> alias]

\* One more call on the builder is made and recorded.
Building(c) ==
    /\ bpc = "building"
    /\ Len(bcalls) < MaxBuilderCalls
    /\ bcalls' = Append(bcalls, c)
    /\ UNCHANGED <<bpc, module_vars, engine_load_vars, engine_wasi_vars, calls,
                   conv_vars>>

BuilderAddPreopen ==
    \E real \in PreopenReals, alias \in PreopenAliases :
        /\ builder' = add_preopen(builder, real, alias)
        /\ Building(BuilderCall("add_preopen", <<>>, real, alias))

BuilderSetEnvVars ==
    \E list \in SetterLists :
        /\ builder' = set_env_vars(builder, list)
        /\ Building(BuilderCall("set_env_vars", list, "", ""))

BuilderSetArguments ==
    \E list \in SetterLists :
        /\ builder' = set_arguments(builder, list)
        /\ Building(BuilderCall("set_arguments", list, "", ""))

BuilderSetAllowedDns ==
    \E list \in SetterLists :
        /\ builder' = set_allowed_dns(builder, list)
        /\ Building(BuilderCall("set_allowed_dns", list, "", ""))

BuilderSetAllowedAddress ==
    \E list \in SetterLists :
        /\ builder' = set_allowed_address(builder, list)
        /\ Building(BuilderCall("set_allowed_address", list, "", ""))

\* build(): the builder is consumed, the WasiCtx exists.
BuilderBuild ==
    /\ bpc = "building"
    /\ builder' = build(builder)
    /\ bpc' = "built"
    /\ UNCHANGED <<bcalls, module_vars, engine_load_vars, engine_wasi_vars,
                   calls, conv_vars>>

\* module.set_wasi_context(wasi_ctx) with the WasiCtx just built, which is
\* moved into the call.
SetBuiltWasiContext(m) ==
    /\ bpc = "built"
    /\ SetWasiContextFrom(m, {builder})
    /\ bpc' = "attached"
    /\ UNCHANGED <<builder, bcalls, conv_vars>>

\* tests::test_module_with_wasi_args: a Module is made, a WasiCtx is built
\* and given to set_wasi_context.
NextBuilder ==
    \/ FromBuf(1)
    \/ BuilderAddPreopen
    \/ BuilderSetEnvVars
    \/ BuilderSetArguments
    \/ BuilderSetAllowedDns
    \/ BuilderSetAllowedAddress
    \/ BuilderBuild
    \/ SetBuiltWasiContext(1)
    \/ SetWasiArgs(1)
    \/ SetWasiNsLookupPool(1)
    \/ SetWasiAddrPool(1)

SpecBuilder == Init /\ [][NextBuilder]_vars

\* ------------------------------------------------------ len() conversions

\* The len() values looked at: around 2^16, 2^31 and 2^32, and the 41 bytes
\* of the test's module with and without 2^32 added.
Lengths ==
    {<<l2, l1, l0>> : l2 \in {0, 1}, l1 \in {0, 32767, 32768, 65535},
                      l0 \in {0, 1, 41, 65535}}

\* `len as u32` on a 64-bit usize: the low 32 bits.
usize_as_u32(len) == Exact(<<0, len[2], len[3]>>)

\* `len as i32` on a 64-bit usize: the low 32 bits, two's complement.
usize_as_i32(len) ==
    IF len[2] < 32768
    THEN Exact(<<0, len[2], len[3]>>)
    ELSE [neg |-> TRUE,
          mag |-> IF len[3] = 0
                  THEN <<0, 65536 - len[2], 0>>
                  ELSE <<0, 65535 - len[2], 65536 - len[3]>>]

\* The lists whose len() set_wasi_context passes `as u32`.
CountSites ==
    {"real_paths", "mapped_paths", "env_vars", "allowed_dns", "allowed_address"}

\* from_buf: `content.len() as u32`, for a content of the given length.
ContentLenAsU32 ==
    /\ \E len \in Lengths :
        /\ conv_len' = [site |-> "content", len |-> len]
        /\ conv_out' = usize_as_u32(len)
    /\ UNCHANGED <<module_vars, engine_load_vars, engine_wasi_vars, calls,
                   builder_vars>>

\* set_wasi_context: `get_*().len() as u32`, for a list of the given length.
CountAsU32 ==
    /\ \E site \in CountSites, len \in Lengths :
        /\ conv_len' = [site |-> site, len |-> len]
        /\ conv_out' = usize_as_u32(len)
    /\ UNCHANGED <<module_vars, engine_load_vars, engine_wasi_vars, calls,
                   builder_vars>>

\* set_wasi_context: `get_arguments().len() as i32`.
ArgcAsI32 ==
    /\ \E len \in Lengths :
        /\ conv_len' = [site |-> "arguments", len |-> len]
        /\ conv_out' = usize_as_i32(len)
    /\ UNCHANGED <<module_vars, engine_load_vars, engine_wasi_vars, calls,
                   builder_vars>>

NextLen ==
    \/ ContentLenAsU32
    \/ CountAsU32
    \/ ArgcAsI32

SpecLen == Init /\ [][NextLen]_vars

\* ----------------------------------------------------------------- claims

\* Positions at which the Module value exists and its handle is not unloaded.
LivePcs == {"live", "set_wasi_args", "set_wasi_ns_lookup_pool", "set_wasi_addr_pool"}

\* C1: every module from a successful compile has its handle unloaded
\* exactly once by destruction, whatever the number of set_wasi_context
\* calls: not at all while it lives, once from Drop::drop on, never twice;
\* no unload is made for a failed compile (none of the null handle, none of
\* a handle no load returned).
C1_UnloadExactlyOnce ==
    /\ \A m \in Modules :
        /\ pc[m] \in LivePcs =>
              load_ret[m] \in Handles /\ unloads[load_ret[m]] = 0
        /\ pc[m] \in {"unloaded", "dropped"} =>
              load_ret[m] \in Handles /\ unloads[load_ret[m]] = 1
        /\ pc[m] \in {"init", "failed"} => load_ret[m] \notin Handles
    /\ unloads[NULL] = 0
    /\ \A h \in Handles :
        (\A m \in Modules : load_ret[m] # h) => unloads[h] = 0

\* A module destroyed after two set_wasi_context calls, unloaded once.
C1_Witness ==
    \E m \in Modules :
        /\ pc[m] = "dropped"
        /\ wasi_ctx[m].id = 2
        /\ unloads[load_ret[m]] = 1

\* The bytes the constructor call of Module m compiled.
CallBytes(m) ==
    IF call[m].via = "file" THEN FileBytes(call[m].path) ELSE call[m].buf

\* C2: while a handle is loaded and not yet unloaded, the buffer the engine
\* was given is the content buffer of the module holding that handle, which
\* is allocated, at the place it was at the load, and holds the bytes that
\* were compiled; so the buffer is never released before the unload.
C2_BufferOutlivesHandle ==
    \A h \in ModuleT :
        loaded[h].state = "loaded" =>
            \E m \in Modules :
                /\ load_ret[m] = h
                /\ module[m] = h
                /\ loaded[h].buf = ContentStore(m)
                /\ ContentStore(m) \in heap
                /\ content[m] = CallBytes(m)
                /\ loaded[h].len = Len(content[m])

\* Destruction under way: the handle is unloaded, the buffer still there,
\* while the other module's handle is still loaded.
C2_Witness ==
    \E m, k \in Modules :
        /\ pc[m] = "unloaded"
        /\ loaded[load_ret[m]].state = "unloaded"
        /\ ContentStore(m) \in heap
        /\ pc[k] = "live"
        /\ loaded[load_ret[k]].state = "loaded"

\* C3: when wasm_runtime_load returned null, from_buf returned
\* CompilationError and no Module came to be: no handle, no retained bytes,
\* no storage kept, nothing the engine holds refers to its buffer, and no
\* unload or sandbox call was made with the null handle.
C3_CompileAtomic ==
    /\ \A m \in Modules :
        load_ret[m] = NULL =>
            /\ pc[m] = "failed"
            /\ result[m].kind = "CompilationError"
            /\ module[m] = NULL
            /\ content[m] = <<>>
            /\ \A p \in heap : p.m # m
            /\ \A h \in ModuleT : loaded[h].buf \notin {ContentStore(m), CallerBuf(m)}
    /\ unloads[NULL] = 0
    /\ ~wasi_args[NULL].set
    /\ ~ns_lookup_pool[NULL].set
    /\ ~addr_pool[NULL].set

\* A compile the engine rejected, next to one it accepted.
C3_Witness ==
    \E m, k \in Modules :
        /\ load_ret[m] = NULL
        /\ result[m].kind = "CompilationError"
        /\ pc[k] = "dropped"

\* C4: from_file fails with WasmFileFSError exactly when opening or reading
\* the file fails, and then wasm_runtime_load was not called; a
\* CompilationError means the load was called and returned null (for
\* from_file: on a file that was read in full); from_buf never fails with
\* WasmFileFSError.
C4_ErrorKinds ==
    \A m \in Modules :
        /\ result[m].kind = "WasmFileFSError" <=>
              /\ call[m].via = "file"
              /\ ~FileOpens(call[m].path) \/ ~FileReads(call[m].path)
        /\ result[m].kind = "WasmFileFSError" => load_ret[m] = NotCalled
        /\ result[m].kind = "CompilationError" =>
              /\ load_ret[m] = NULL
              /\ call[m].via = "file" =>
                    FileOpens(call[m].path) /\ FileReads(call[m].path)
        /\ call[m].via = "buf" => result[m].kind # "WasmFileFSError"

\* from_file failed once on a missing file and once on rejected bytes.
C4_Witness ==
    \E m, k \in Modules :
        /\ call[m].path = "not_exist"
        /\ result[m].kind = "WasmFileFSError"
        /\ call[k].path = "bad.wasm"
        /\ result[k].kind = "CompilationError"

\* C5: the message of a CompilationError is the engine's diagnostic when it
\* wrote one and "load module failed" when it wrote none, so it is never
\* empty.
C5_DiagnosticOrFallback ==
    \A m \in Modules :
        result[m].kind = "CompilationError" =>
            /\ diag[m] # <<>> => result[m].msg = diag[m]
            /\ diag[m] = <<>> => result[m].msg = LoadModuleFailed
            /\ result[m].msg # <<>>

\* The WasiCtx the engine's current wasi_args of Module m were taken from:
\* the stored one, or the replaced one until the call of a running
\* set_wasi_context is made.
ArgsCtx(m) ==
    IF pc[m] = "set_wasi_args" THEN prev[m] ELSE wasi_ctx[m].ctx

NsCtx(m) ==
    IF pc[m] \in {"set_wasi_args", "set_wasi_ns_lookup_pool"}
    THEN prev[m] ELSE wasi_ctx[m].ctx

AddrCtx(m) ==
    IF pc[m] \in {"set_wasi_args", "set_wasi_ns_lookup_pool", "set_wasi_addr_pool"}
    THEN prev[m] ELSE wasi_ctx[m].ctx

\* Null and 0 for an empty list; non-null and the length for any other.
NullIffEmpty(list, ptr, count) ==
    IF Len(list) = 0
    THEN ptr = NullPtr /\ count = 0
    ELSE ptr # NullPtr /\ count = Len(list)

\* C6: for each of the six lists of every set_wasi_context call, the engine
\* received null and count 0 if the list was empty, and a non-null pointer
\* and the list's length if it was not; never a non-null pointer with 0.
C6_NullIffEmpty ==
    \A m \in Modules :
        LET h == load_ret[m]
        IN  h \in Handles =>
            /\ wasi_args[h].set =>
                /\ NullIffEmpty(ArgsCtx(m).real_paths,
                                wasi_args[h].dir_list, wasi_args[h].dir_count)
                /\ NullIffEmpty(ArgsCtx(m).mapped_paths,
                                wasi_args[h].map_dir_list, wasi_args[h].map_dir_count)
                /\ NullIffEmpty(ArgsCtx(m).env_vars,
                                wasi_args[h].env, wasi_args[h].env_count)
                /\ NullIffEmpty(ArgsCtx(m).arguments,
                                wasi_args[h].argv, wasi_args[h].argc)
            /\ ns_lookup_pool[h].set =>
                NullIffEmpty(NsCtx(m).allowed_dns,
                             ns_lookup_pool[h].list, ns_lookup_pool[h].count)
            /\ addr_pool[h].set =>
                NullIffEmpty(AddrCtx(m).allowed_address,
                             addr_pool[h].list, addr_pool[h].count)

\* Both cases at once: a call made with non-empty arguments and empty
\* environment, DNS and address lists.
C6_Witness ==
    \E m \in Modules :
        /\ pc[m] = "live"
        /\ wasi_ctx[m].ctx.arguments # <<>>
        /\ wasi_ctx[m].ctx.env_vars = <<>>
        /\ wasi_args[module[m]].argv # NullPtr
        /\ wasi_args[module[m]].argc = 2
        /\ wasi_args[module[m]].env = NullPtr
        /\ addr_pool[module[m]].set
        /\ addr_pool[module[m]].list = NullPtr

\* C7: every wasm_runtime_set_wasi_args call has equal real-path and
\* mapped-path counts, taken from lists of equal length; for the WasiCtx of
\* test_module_with_wasi_args (one preopen ".", alias omitted) the engine
\* gets real-count 1 and alias-count 1, the alias being ".", and every
\* other list as null with count 0.
C7_PreopenPaired ==
    \A m \in Modules :
        LET h == load_ret[m]
        IN  (h \in Handles /\ wasi_args[h].set) =>
            /\ wasi_args[h].dir_count = wasi_args[h].map_dir_count
            /\ Len(ArgsCtx(m).real_paths) = Len(ArgsCtx(m).mapped_paths)
            /\ wasi_args[h].dir_count = Len(ArgsCtx(m).real_paths)
            /\ (pc[m] = "live" /\ arg[m] = TestWasiCtx) =>
                /\ wasi_ctx[m].ctx.real_paths = <<".">>
                /\ wasi_ctx[m].ctx.mapped_paths = <<".">>
                /\ wasi_args[h] =
                     [set |-> TRUE,
                      dir_list |-> Ptr(m, wasi_ctx[m].id, "real_paths"),
                      dir_count |-> 1,
                      map_dir_list |-> Ptr(m, wasi_ctx[m].id, "mapped_paths"),
                      map_dir_count |-> 1,
                      env |-> NullPtr, env_count |-> 0,
                      argv |-> NullPtr, argc |-> 0]
                /\ ns_lookup_pool[h] = [set |-> TRUE, list |-> NullPtr, count |-> 0]
                /\ addr_pool[h] = [set |-> TRUE, list |-> NullPtr, count |-> 0]

\* The test's WasiCtx attached, and a two-preopen WasiCtx attached to the
\* other module.
C7_Witness ==
    \E m, k \in Modules :
        /\ pc[m] = "live"
        /\ arg[m] = TestWasiCtx
        /\ wasi_args[module[m]].map_dir_count = 1
        /\ pc[k] = "live"
        /\ wasi_args[module[k]].map_dir_count = 2

\* What the engine should hold for Module m once set_wasi_context(ctx)
\* returned: every pointer null or into the WasiCtx now stored.
ExpectPtr(m, field, list) ==
    IF Len(list) = 0 THEN NullPtr ELSE Ptr(m, wasi_ctx[m].id, field)

\* C8: once set_wasi_context returned, the stored WasiCtx is the one given
\* last, and the last arguments of each of the three engine calls for the
\* module's handle are those of that WasiCtx in every field, the empty ones
\* included; nothing of an earlier WasiCtx remains.
C8_LastPolicyInEffect ==
    \A m \in Modules :
        (pc[m] = "live" /\ wasi_ctx[m].id >= 1) =>
            LET h == load_ret[m]
                p == arg[m]
            IN  /\ wasi_ctx[m].ctx = p
                /\ wasi_args[h] =
                     [set |-> TRUE,
                      dir_list |-> ExpectPtr(m, "real_paths", p.real_paths),
                      dir_count |-> Len(p.real_paths),
                      map_dir_list |-> ExpectPtr(m, "mapped_paths", p.mapped_paths),
                      map_dir_count |-> Len(p.mapped_paths),
                      env |-> ExpectPtr(m, "env_vars", p.env_vars),
                      env_count |-> Len(p.env_vars),
                      argv |-> ExpectPtr(m, "arguments", p.arguments),
                      argc |-> Len(p.arguments)]
                /\ ns_lookup_pool[h] =
                     [set |-> TRUE,
                      list |-> ExpectPtr(m, "allowed_dns", p.allowed_dns),
                      count |-> Len(p.allowed_dns)]
                /\ addr_pool[h] =
                     [set |-> TRUE,
                      list |-> ExpectPtr(m, "allowed_address", p.allowed_address),
                      count |-> Len(p.allowed_address)]

\* Two calls on one module, the first with every list non-empty, the second
\* with the test's WasiCtx, whose environment, arguments and pools are empty.
C8_Witness ==
    \E m \in Modules :
        /\ pc[m] = "live"
        /\ wasi_ctx[m].id = 2
        /\ prev[m] = FullWasiCtx
        /\ arg[m] = TestWasiCtx
        /\ wasi_args[module[m]].env = NullPtr
        /\ ns_lookup_pool[module[m]].count = 0

\* What belongs to Module m: its fields, its storage, and what the engine
\* holds for its handle.
Owned(m) ==
    LET h == load_ret[m]
    IN  <<module[m], content[m], wasi_ctx[m], {p \in heap : p.m = m},
          IF h \in Handles
          THEN <<loaded[h], unloads[h], wasi_args[h], ns_lookup_pool[h],
                 addr_pool[h]>>
          ELSE <<>> >>

\* Module o takes a step of its destruction.
Destroys(o) ==
    \/ pc[o] = "live" /\ pc'[o] = "unloaded"
    \/ pc[o] = "unloaded" /\ pc'[o] = "dropped"

\* Two compiled modules have different handles and different buffers, and a
\* module that lives has its handle loaded and its buffer and WasiCtx
\* allocated, whatever became of the other.
SeparateModules ==
    /\ \A m, k \in Modules :
        (m # k /\ load_ret[m] \in Handles /\ load_ret[k] \in Handles) =>
            /\ load_ret[m] # load_ret[k]
            /\ loaded[load_ret[m]].buf # loaded[load_ret[k]].buf
    /\ \A m \in Modules :
        pc[m] \in LivePcs =>
            /\ loaded[module[m]].state = "loaded"
            /\ unloads[module[m]] = 0
            /\ ContentStore(m) \in heap
            /\ WasiStore(m, wasi_ctx[m].id) \in heap

\* C9: two modules (also two compiled from the same buffer) have separate
\* handles and separate buffer copies, and a step of one module's
\* destruction, in either order and at any point of a set_wasi_context on
\* the other, leaves the other's handle loaded and its buffer, WasiCtx and
\* engine-side state as they were.
C9_IndependentDestruction ==
    /\ []SeparateModules
    /\ [][\A m, o \in Modules :
            (m # o /\ Destroys(o)) => (Owned(m)' = Owned(m) /\ pc'[m] = pc[m])]_vars

\* The same buffer compiled twice, the first module destroyed while the
\* second is in the middle of its set_wasi_context.
C9_Witness ==
    \E m, k \in Modules :
        /\ m < k
        /\ call[m].via = "buf"
        /\ call[m] = call[k]
        /\ pc[m] = "dropped"
        /\ pc[k] = "set_wasi_ns_lookup_pool"
        /\ loaded[module[k]].state = "loaded"

\* A step of set_wasi_context on Module m.
Attaches_(m) ==
    \/ pc[m] = "live" /\ pc'[m] = "set_wasi_args"
    \/ pc[m] = "set_wasi_args" /\ pc'[m] = "set_wasi_ns_lookup_pool"
    \/ pc[m] = "set_wasi_ns_lookup_pool" /\ pc'[m] = "set_wasi_addr_pool"
    \/ pc[m] = "set_wasi_addr_pool" /\ pc'[m] = "live"

\* The handle of a live module is the non-null one its load returned, the
\* buffer holds the compiled bytes, and get_inner_module returned a handle
\* some load returned.
HandleIsLoadResult ==
    /\ \A m \in Modules :
        pc[m] \in LivePcs =>
            /\ get_inner_module(m) = load_ret[m]
            /\ get_inner_module(m) # NULL
            /\ content[m] = CallBytes(m)
    /\ ret # NULL => \E m \in Modules : load_ret[m] = ret

\* C10: get_inner_module returns the non-null handle the load returned;
\* a get_inner_module call changes nothing of any module or of the engine;
\* a step of set_wasi_context leaves the module's handle and buffer, every
\* other module, and the engine's load/unload state as they were, and
\* changes only the stored WasiCtx (with its storage) and the sandbox
\* configuration of the module's own handle.
C10_HandleStable ==
    /\ []HandleIsLoadResult
    /\ [][ret' # ret =>
            /\ \E m \in Modules : pc[m] = "live" /\ ret' = load_ret[m]
            /\ UNCHANGED <<pc, call, result, module, content, wasi_ctx, arg,
                           prev, heap, engine_load_vars, engine_wasi_vars, calls>>]_vars
    /\ [][\A m \in Modules : Attaches_(m) =>
            /\ module'[m] = module[m]
            /\ content'[m] = content[m]
            /\ UNCHANGED <<call, result, module, content, ret, engine_load_vars>>
            /\ \A p \in (heap \ heap') \cup (heap' \ heap) :
                    p.m = m /\ p.field = "wasi_ctx"
            /\ \A k \in Modules \ {m} : wasi_ctx'[k] = wasi_ctx[k]
            /\ \A h \in ModuleT \ {module[m]} :
                    /\ wasi_args'[h] = wasi_args[h]
                    /\ ns_lookup_pool'[h] = ns_lookup_pool[h]
                    /\ addr_pool'[h] = addr_pool[h]]_vars

\* get_inner_module called on a module after two set_wasi_context calls.
C10_Witness ==
    \E m \in Modules :
        /\ pc[m] = "live"
        /\ wasi_ctx[m].id = 2
        /\ ret = module[m]
        /\ ret = load_ret[m]
        /\ ret # NULL
        /\ addr_pool[ret].set

\* The calls one handle received are whole set_wasi_context groups: a
\* set_wasi_args only at the start or right after a set_wasi_addr_pool,
\* each pool call right after the call before it in its group, and an
\* unload never inside a group.
WholeGroups(log) ==
    \A i \in 1..Len(log) :
        /\ log[i] = "set_wasi_args" =>
              i = 1 \/ log[i - 1] = "set_wasi_addr_pool"
        /\ log[i] = "set_wasi_ns_lookup_pool" =>
              i > 1 /\ log[i - 1] = "set_wasi_args"
        /\ log[i] = "set_wasi_addr_pool" =>
              i > 1 /\ log[i - 1] = "set_wasi_ns_lookup_pool"
        /\ log[i] = "unload" =>
              i = 1 \/ log[i - 1] = "set_wasi_addr_pool"

\* C11: set_wasi_context has exclusive access to its module, so on every
\* handle the three engine calls of one set_wasi_context are never
\* interleaved with the calls of another set_wasi_context or with the
\* unload on that handle.
C11_NoInterleaving ==
    \A h \in ModuleT : WholeGroups(calls[h])

\* One handle that received two set_wasi_context groups and then the unload.
C11_Witness ==
    \E h \in Handles :
        calls[h] = <<"set_wasi_args", "set_wasi_ns_lookup_pool",
                     "set_wasi_addr_pool",
                     "set_wasi_args", "set_wasi_ns_lookup_pool",
                     "set_wasi_addr_pool", "unload">>

\* The list a wholesale setter leaves, from the calls made: the argument of
\* its last call, and the empty list if it was never called.
LastArgument(op) ==
    LET made == {i \in 1..Len(bcalls) : bcalls[i].op = op}
    IN  IF made = {} THEN <<>>
        ELSE bcalls[CHOOSE i \in made : \A j \in made : j <= i].list

IsAddPreopen(c) == c.op = "add_preopen"

\* The add_preopen calls made, in order.
PreopenCalls == SelectSeq(bcalls, IsAddPreopen)

\* The WasiCtx the recorded calls describe.
Described ==
    [real_paths |-> [i \in 1..Len(PreopenCalls) |-> PreopenCalls[i].real],
     mapped_paths |->
        [i \in 1..Len(PreopenCalls) |->
            IF PreopenCalls[i].alias = "" THEN PreopenCalls[i].real
            ELSE PreopenCalls[i].alias],
     env_vars |-> LastArgument("set_env_vars"),
     arguments |-> LastArgument("set_arguments"),
     allowed_dns |-> LastArgument("set_allowed_dns"),
     allowed_address |-> LastArgument("set_allowed_address")]

\* C12: each wholesale setter leaves the argument of its last call as the
\* list (the empty list if never called), each add_preopen appends one (real,
\* alias) pair in call order; the built WasiCtx, once given to
\* set_wasi_context, is the stored one with exactly these lists, and the
\* counts the engine receives are their lengths.
C12_BuilderLastWins ==
    /\ builder = Described
    /\ bpc = "attached" =>
        /\ wasi_ctx[1].ctx = Described
        /\ wasi_args[load_ret[1]].set =>
            /\ wasi_args[load_ret[1]].dir_count = Len(Described.real_paths)
            /\ wasi_args[load_ret[1]].map_dir_count = Len(Described.mapped_paths)
            /\ wasi_args[load_ret[1]].env_count = Len(Described.env_vars)
            /\ wasi_args[load_ret[1]].argc = Len(Described.arguments)
        /\ ns_lookup_pool[load_ret[1]].set =>
            ns_lookup_pool[load_ret[1]].count = Len(Described.allowed_dns)
        /\ addr_pool[load_ret[1]].set =>
            addr_pool[load_ret[1]].count = Len(Described.allowed_address)

\* set_env_vars(<<"a">>), then set_env_vars(<<>>), then an add_preopen
\* without alias; built, attached, and all three engine calls made.
C12_Witness ==
    /\ bpc = "attached"
    /\ pc[1] = "live"
    /\ Len(bcalls) = 3
    /\ bcalls[1] = BuilderCall("set_env_vars", <<"a">>, "", "")
    /\ bcalls[2] = BuilderCall("set_env_vars", <<>>, "", "")
    /\ bcalls[3] = BuilderCall("add_preopen", <<>>, ".", "")
    /\ wasi_ctx[1].ctx.env_vars = <<>>
    /\ wasi_ctx[1].ctx.mapped_paths = <<".">>
    /\ addr_pool[load_ret[1]].set

\* The non-null pointers the engine was last given for handle h: those of
\* the wasm_runtime_set_wasi_args call, and those of the two pool calls.
ArgsPtrs(h) ==
    {wasi_args[h].dir_list, wasi_args[h].map_dir_list, wasi_args[h].env,
     wasi_args[h].argv} \ {NullPtr}

PoolPtrs(h) == {ns_lookup_pool[h].list, addr_pool[h].list} \ {NullPtr}

GivenPtrs(h) == ArgsPtrs(h) \cup PoolPtrs(h)

\* The storage pointer p points into is allocated.
Allocated(p) == WasiStore(p.m, p.n) \in heap

\* C13 (as stated): the pointer table is call-scoped; once a
\* set_wasi_context has returned, no table it handed to the engine is still
\* kept: the storage of every pointer given is discarded.
C13_TableDiscarded ==
    \A m \in Modules :
        (pc[m] = "live" /\ wasi_ctx[m].id >= 1) =>
            \A p \in GivenPtrs(load_ret[m]) : ~Allocated(p)

\* C13 (amended): every set_wasi_context call takes each non-null pointer
\* anew from the WasiCtx it has just stored, never from an earlier one; the
\* table is the stored WasiCtx's own storage, which is kept by the Module
\* after the call returns, until the next set_wasi_context or the drop.
C13_TableOfStoredCtx ==
    \A m \in Modules :
        /\ pc[m] \in {"set_wasi_ns_lookup_pool", "set_wasi_addr_pool", "live"} =>
            \A p \in ArgsPtrs(load_ret[m]) :
                p.m = m /\ p.n = wasi_ctx[m].id /\ Allocated(p)
        /\ pc[m] \in {"set_wasi_addr_pool", "live"} =>
            (ns_lookup_pool[load_ret[m]].list # NullPtr =>
                LET p == ns_lookup_pool[load_ret[m]].list
                IN  p.m = m /\ p.n = wasi_ctx[m].id /\ Allocated(p))
        /\ pc[m] = "live" =>
            (addr_pool[load_ret[m]].list # NullPtr =>
                LET p == addr_pool[load_ret[m]].list
                IN  p.m = m /\ p.n = wasi_ctx[m].id /\ Allocated(p))

\* A second set_wasi_context has returned: the engine holds pointers into
\* the second WasiCtx, which is allocated, and the first is released.
C13_Witness ==
    \E m \in Modules :
        /\ pc[m] = "live"
        /\ wasi_ctx[m].id = 2
        /\ wasi_args[load_ret[m]].env = Ptr(m, 2, "env_vars")
        /\ ns_lookup_pool[load_ret[m]].list = Ptr(m, 2, "allowed_dns")
        /\ prev[m].env_vars # <<>>
        /\ WasiStore(m, 2) \in heap
        /\ WasiStore(m, 1) \notin heap

\* C14: while a Module's handle is live, the steps inside a later
\* set_wasi_context and the time before the unload included, every non-null
\* pointer the engine was last given for the handle points into storage of
\* a WasiCtx that is still allocated.
C14_GivenPtrsAllocated ==
    \A m \in Modules :
        pc[m] \in LivePcs =>
            \A p \in GivenPtrs(load_ret[m]) : Allocated(p)

\* The engine calls one set_wasi_context makes, in order.
AttachCalls ==
    <<"set_wasi_args", "set_wasi_ns_lookup_pool", "set_wasi_addr_pool">>

\* Engine calls of the running (or last) set_wasi_context already made.
CallsMade(m) ==
    CASE pc[m] = "set_wasi_args" -> 0
      [] pc[m] = "set_wasi_ns_lookup_pool" -> 1
      [] pc[m] = "set_wasi_addr_pool" -> 2
      [] OTHER -> 3

\* C15: a Module just made holds WasiCtx::default() and its handle has had
\* no set_wasi_* call; every set_wasi_context has stored the WasiCtx given
\* before its first engine call, and the calls its handle has received are,
\* per set_wasi_context, exactly set_wasi_args, set_wasi_ns_lookup_pool,
\* set_wasi_addr_pool in this order, each made from the WasiCtx just stored;
\* no other handle receives any of them.
C15_StoreThenThreeCalls ==
    /\ \A m \in Modules :
        pc[m] \in LivePcs =>
            LET h == load_ret[m]
                n == wasi_ctx[m].id
            IN  /\ h = module[m]
                /\ n = 0 =>
                    /\ pc[m] = "live"
                    /\ wasi_ctx[m].ctx = WasiCtx_default
                    /\ calls[h] = <<>>
                    /\ ~wasi_args[h].set
                    /\ ~ns_lookup_pool[h].set
                    /\ ~addr_pool[h].set
                /\ n >= 1 =>
                    /\ wasi_ctx[m].ctx = arg[m]
                    /\ Len(calls[h]) = 3 * (n - 1) + CallsMade(m)
                    /\ \A i \in 1..Len(calls[h]) :
                            calls[h][i] = AttachCalls[((i - 1) % 3) + 1]
                    /\ CallsMade(m) >= 1 =>
                        /\ wasi_args[h].set
                        /\ NullIffEmpty(arg[m].real_paths, wasi_args[h].dir_list,
                                        wasi_args[h].dir_count)
                        /\ NullIffEmpty(arg[m].mapped_paths,
                                        wasi_args[h].map_dir_list,
                                        wasi_args[h].map_dir_count)
                        /\ NullIffEmpty(arg[m].env_vars, wasi_args[h].env,
                                        wasi_args[h].env_count)
                        /\ NullIffEmpty(arg[m].arguments, wasi_args[h].argv,
                                        wasi_args[h].argc)
                    /\ CallsMade(m) >= 2 =>
                        /\ ns_lookup_pool[h].set
                        /\ NullIffEmpty(arg[m].allowed_dns, ns_lookup_pool[h].list,
                                        ns_lookup_pool[h].count)
                    /\ CallsMade(m) >= 3 =>
                        /\ addr_pool[h].set
                        /\ NullIffEmpty(arg[m].allowed_address, addr_pool[h].list,
                                        addr_pool[h].count)
    /\ \A h \in ModuleT :
        (\A m \in Modules : load_ret[m] # h) => calls[h] = <<>>

\* One module is inside its second set_wasi_context, the new WasiCtx stored
\* and only the first engine call made; another module, made after it, has
\* never had a set_wasi_context.
C15_Witness ==
    \E m, k \in Modules :
        /\ pc[m] = "set_wasi_ns_lookup_pool"
        /\ wasi_ctx[m].id = 2
        /\ wasi_ctx[m].ctx = arg[m]
        /\ arg[m] # prev[m]
        /\ Len(calls[module[m]]) = 4
        /\ pc[k] = "live"
        /\ wasi_ctx[k].id = 0
        /\ calls[module[k]] = <<>>

\* C16: the length the engine's load is passed is the length of the content
\* buffer, and each count set_wasi_context passes is the length of its list,
\* whatever the length: the `as u32` and `as i32` conversions leave the
\* value as it was.
C16_LengthsUnchanged ==
    conv_len.site # "none" => conv_out = Exact(conv_len.len)

====
